---- MODULE Spec2Model ----
(***************************************************************************)
(* Model of gradio's event queue and job dispatcher                       *)
(* (src/gradio/event_queue.py: classes Queue and Event).                   *)
(*                                                                         *)
(* The dispatcher runs on one asyncio event loop: tasks are cooperative,   *)
(* and a task gives up control only at an await that suspends.  Each       *)
(* action below is one atomic segment of one task, from the point where    *)
(* the task resumes to its next suspension point.  The suspension points   *)
(* modelled are asyncio.sleep, the first run of a newly created task (the  *)
(* subtasks of asyncio.gather included), the websocket receive, every      *)
(* websocket send, the backend request and the websocket close.  The       *)
(* result of a send is read from the channel's state when the send ends.   *)
(* Queue.LOCK is never held across a suspension point, so it is always     *)
(* acquired without waiting and is free between any two actions;           *)
(* hist.unlocked records the operations that change EVENT_QUEUE without    *)
(* holding it.                                                             *)
(*                                                                         *)
(* Jobs are numbered in the order in which callers push them (job i is the *)
(* i-th job pushed); callers push each job once.  Init is the state after  *)
(* one configure_queue and one init(); SpecStop has the later calls of     *)
(* both.                                                                   *)
(*                                                                         *)
(* Spec is the dispatcher that is never stopped, with every caller, client *)
(* and backend behaviour.  A stopped loop takes no step, which a loop that *)
(* is not scheduled does not either, so Spec has every behaviour of the    *)
(* queue, the slots and the job tasks that a dispatcher stopped at some    *)
(* moment has.  SpecStop is the dispatcher whose callers call close(),     *)
(* resume(), init() and configure_queue() at any moment, with one job;     *)
(* SpecSerial fixes concurrency limit 1 and clients that stay connected    *)
(* and answer, SpecCancel adds callers that cancel; SpecEstimator applies  *)
(* update_estimation alone; SpecLive has failure-free clients and backend  *)
(* and fair scheduling.                                                    *)
(***************************************************************************)
EXTENDS Integers, Sequences, FiniteSets, TLC

\* ---------------------------------------------------------------- bounds
\* Number of jobs (Event objects) that callers create and push in Spec and
\* in SpecLive.
NJobs == 2
\* Number of jobs that callers create and push in SpecSerial.
NSerial == 3
\* Number of update_estimation calls in SpecEstimator.
MaxUpdates == 4
\* Number of loop tasks of a kind (start_processing, notify_clients) that run
\* side by side: one per call of init() whose tasks have not ended.
MaxInits == 2
\* The loop tasks of a kind.
LoopTasks == 1..MaxInits
\* The callers of broadcast_estimation, each awaiting the subtasks of its own
\* call: the notify_clients task t, and (as FromAdmission) the
\* broadcast_estimation tasks that start_processing creates.
FromAdmission == 0
Broadcasts == {FromAdmission} \cup LoopTasks
\* Number of jobs pushed in SpecStop.
NStop == 1

\* The Event objects, numbered in push order.
Jobs == 1..NSerial
\* Python's None in an ACTIVE_JOBS slot.
None == 0

\* configure_queue(data_gathering_start=...): how many events at the head of
\* the queue a prefetch task gathers data for.
DATA_GATHERING_STARTS_AT == 1
\* configure_queue(duration_history_size=...)
DURATION_HISTORY_SIZE == 2

\* --------------------------------------------------------- configuration
\* configure_queue(queue_concurrency_count=...) for the runs explored.
ThreadCounts == {1, 2}
\* Queue.ESTIMATION before any job completed: 1 second, in hundredths.
DefaultEstimation == 100

VARIABLES
    EVENT_QUEUE,        \* Queue.EVENT_QUEUE: sequence of pending jobs
    ACTIVE_JOBS,        \* Queue.ACTIVE_JOBS: sequence of length MAX_THREAD_COUNT
    STOP,               \* Queue.STOP
    MAX_THREAD_COUNT,   \* Queue.MAX_THREAD_COUNT
    LIVE_QUEUE_UPDATES, \* Queue.LIVE_QUEUE_UPDATES
    DURATION_HISTORY,   \* Queue.DURATION_HISTORY, durations in milliseconds
    ESTIMATION,         \* Queue.ESTIMATION, in hundredths of a second
    data,               \* data[j]: event.data of job j is set (truthy)
    alive,              \* alive[j]: the client's websocket of job j is connected
    closed,             \* closed[j]: the dispatcher closed job j's websocket
    nPushed,            \* number of jobs pushed so far
    admPc,              \* admPc[t]: position of the start_processing task t
    notPc,              \* notPc[t]: position of the notify_clients task t
    pc,                 \* pc[j]: position of the process_event task of job j
    prefetchTasks,      \* gather_data_for_first_ranks tasks created, not yet run
    gNew,               \* per job: prefetch gather_event_data subtasks created, not yet run
    gSend,              \* per job: prefetch subtasks awaiting the send of send_data
    gRecv,              \* per job: prefetch subtasks awaiting get_message
    bcastTasks,         \* broadcast_estimation tasks created, not yet run
    eNew,               \* eNew[b][j]: send_estimation(j) subtasks of the
                        \* broadcasts b created, not yet run
    eSend,              \* eSend[b][j]: those awaiting their send
    hist                \* history record, read only by the properties

vars == <<EVENT_QUEUE, ACTIVE_JOBS, STOP, MAX_THREAD_COUNT, LIVE_QUEUE_UPDATES,
          DURATION_HISTORY, ESTIMATION, data, alive, closed, nPushed, admPc,
          notPc, pc, prefetchTasks, gNew, gSend, gRecv, bcastTasks, eNew,
          eSend, hist>>

\* ------------------------------------------------------ sequence helpers
Range(s) == {s[i] : i \in 1..Len(s)}

InQueue(j) == j \in Range(EVENT_QUEUE)

InSlot(j) == \E i \in 1..Len(ACTIVE_JOBS) : ACTIVE_JOBS[i] = j

\* list.index(x): the least index holding x; 0 when x is absent, where
\* Python raises ValueError (see CleanJobRaises, CleanEvent).
IndexOf(s, x) ==
    IF x \in Range(s) THEN CHOOSE i \in 1..Len(s) : s[i] = x /\ \A k \in 1..(i-1) : s[k] # x
    ELSE 0

\* list.remove(x): drops the first occurrence of x; unchanged when absent
\* (the ValueError is swallowed by clean_event).
RemoveFirst(s, x) ==
    LET i == IndexOf(s, x)
    IN  IF i = 0 THEN s ELSE SubSeq(s, 1, i-1) \o SubSeq(s, i+1, Len(s))

\* s[:n]
Prefix(s, n) == SubSeq(s, 1, IF Len(s) < n THEN Len(s) ELSE n)

RECURSIVE SumSeq(_)
SumSeq(s) == IF s = <<>> THEN 0 ELSE Head(s) + SumSeq(Tail(s))

\* round(x, 2) for the double x that the float arithmetic gives for the
\* rational n/m hundredths (m > 0, n >= 0): the values it can return.  Away
\* from a tie the nearest hundredth.  On a tie (n/m = q + 1/2) round() looks
\* at the double: when the float arithmetic was exact the double is the tie
\* itself and the even neighbour is returned; otherwise the double lies just
\* below or just above the tie (0.015 is below, 0.105 above) and either
\* neighbour can be the result.
Round2(n, m, exact) ==
    LET q == n \div m
        r == n % m
    IN  IF 2 * r < m THEN {q}
        ELSE IF 2 * r > m THEN {q + 1}
        ELSE IF exact THEN {IF q % 2 = 0 THEN q ELSE q + 1}
        ELSE {q, q + 1}

\* ------------------------------------------------------------ environment
\* Backend latency measured for job j (end_time - begin_time), milliseconds.
DurationOf(j) == j * 1000

\* Durations (milliseconds) given to update_estimation in SpecEstimator:
\* binary fractions of a second, and 0.01 s, which is none.
Durations == {10, 125, 250, 1000}

\* What `await websocket.receive_json()` gives to get_message: the client's
\* input ("payload"), or an exception, which get_message turns into None
\* ("none": the channel is dead, or the message is not JSON).  An input that
\* is falsy ({}) reads like "none" in every later `if not event.data`.
ReceiveOutcomes == {"payload", "none"}

\* Outcomes of `await Request(...)` as process_event sees them: the await
\* returns ("ok": process_event goes on, whatever the response holds), or the
\* invocation fails and the await raises.
BackendOutcomes == {"ok", "raise"}

\* -------------------------------------------------------------- history
\* The statement of operation op changes EVENT_QUEUE; locked tells whether
\* the code holds Queue.LOCK around that statement.
NoteMut(h, op, locked) ==
    [h EXCEPT !.unlocked = IF locked THEN @ ELSE @ \cup {op}]

\* clean_event(j) runs on queue q (always under the lock): count the removal
\* when the event is found, and note a removal that leaves two or more
\* events in the list.
NoteRemove(h, q, j) ==
    [NoteMut(h, "remove", TRUE) EXCEPT
        !.removed[j] = IF j \in Range(q) THEN @ + 1 ELSE @,
        !.leftSeveral = @ \/ (j \in Range(q) /\ Len(q) >= 3)]

\* The admission loop pops the events of adm, in that order, under the lock.
NotePops(h, adm) ==
    [NoteMut(h, "pop", TRUE) EXCEPT
        !.removed = [j \in Jobs |->
                        @[j] + Len(SelectSeq(adm, LAMBDA x : x = j))],
        !.admitOrder = @ \o adm]

\* ------------------------------------------------- Queue: pure operations
\* Mutant of QueuePop: the head is read and left in the list.
QueuePopKeep(q) == [event |-> Head(q), rest |-> q]

\* EVENT_QUEUE.pop(0): the popped event and the rest of the list.
QueuePop(q) == [event |-> Head(q), rest |-> Tail(q)]

\* `not cls.EVENT_QUEUE`
QueueEmpty(q) == q = <<>>

\* `None in cls.ACTIVE_JOBS`
HasFreeSlot(slots) == None \in Range(slots)

\* Mutant of OccupySlot: the last free slot is taken, not the first.
OccupyLastSlot(slots, j) ==
    [slots EXCEPT ![CHOOSE i \in 1..Len(slots) :
                      slots[i] = None /\ \A k \in (i+1)..Len(slots) : slots[k] # None] = j]

\* cls.ACTIVE_JOBS[cls.ACTIVE_JOBS.index(None)] = event
OccupySlot(slots, j) == [slots EXCEPT ![IndexOf(slots, None)] = j]

\* Mutant of CleanJob: the slot is not released.
CleanJobKeep(slots, j) == slots

\* Queue.clean_job: the slot holding the event becomes None; the list is
\* left as it is when index() raises.
CleanJob(slots, j) ==
    IF IndexOf(slots, j) = 0 THEN slots
    ELSE [slots EXCEPT ![IndexOf(slots, j)] = None]

\* Whether an exception leaves clean_job: ACTIVE_JOBS.index(event) raises
\* ValueError for an event that is in no slot, and nothing catches it.
CleanJobRaises(slots, j) == IndexOf(slots, j) = 0

\* Mutants of CleanEvent: the removal is left out; an event that is not in
\* the list makes the head go instead.
CleanEventSkip(q, j) == q

CleanEventPopOnMiss(q, j) ==
    IF j \in Range(q) \/ q = <<>> THEN RemoveFirst(q, j) ELSE Tail(q)

\* Mutant of CleanEvent: the event is removed by putting the last event of
\* the list in its place.
CleanEventSwapLast(q, j) ==
    LET i == IndexOf(q, j)
    IN  IF i = 0 THEN q
        ELSE IF i = Len(q) THEN SubSeq(q, 1, Len(q) - 1)
        ELSE SubSeq([q EXCEPT ![i] = q[Len(q)]], 1, Len(q) - 1)

\* Queue.clean_event: EVENT_QUEUE.remove(event); the ValueError that remove
\* raises for an event that is not in the list is caught, so no exception
\* leaves clean_event.
CleanEvent(q, j) == RemoveFirst(q, j)

\* Queue.push: EVENT_QUEUE.append(event).
PushEvent(q, j) == Append(q, j)

\* Mutant of NewHistory: the duration is put in front (insert(0, d)).
NewHistoryPrepend(h, d) ==
    LET a == <<d>> \o h
    IN  IF Len(a) > DURATION_HISTORY_SIZE THEN Tail(a) ELSE a

\* Mutant of NewHistory: the newest duration is evicted (pop() for pop(0)).
NewHistoryDropNewest(h, d) ==
    LET a == Append(h, d)
    IN  IF Len(a) > DURATION_HISTORY_SIZE THEN SubSeq(a, 1, Len(a) - 1) ELSE a

\* Queue.update_estimation: the history after the append and the eviction.
NewHistory(h, d) ==
    LET a == Append(h, d)
    IN  IF Len(a) > DURATION_HISTORY_SIZE THEN Tail(a) ELSE a

IsPowerOfTwo(n) == \E k \in 0..n : 2^k = n

\* The float arithmetic of sum(h) / len(h) / threads + d is exact: the floats
\* of h and d are binary fractions (multiples of 1/8 s) and both divisors
\* are powers of two.  A divisor like 3 or 5 leaves a double next to the
\* quotient.
ExactFloats(h, d, threads) ==
    /\ \A x \in Range(h) \cup {d} : x % 125 = 0
    /\ IsPowerOfTwo(Len(h))
    /\ IsPowerOfTwo(threads)

\* Mutant of NewEstimation: the average is not divided by MAX_THREAD_COUNT.
NewEstimationNoThreads(h, d, threads) ==
    Round2(SumSeq(h) + d * Len(h), 10 * Len(h), ExactFloats(h, d, threads))

\* Queue.update_estimation: round(sum(h) / len(h) / threads + d, 2), with h
\* and d in milliseconds: the values (hundredths of a second) it can store.
NewEstimation(h, d, threads) ==
    Round2(SumSeq(h) + d * Len(h) * threads, 10 * Len(h) * threads,
           ExactFloats(h, d, threads))

\* The iterations of start_processing's while loop from one wake-up to the
\* next sleep: as long as the queue is non-empty and a slot is free, pop the
\* head and put it into the first free slot.  adm collects the admitted jobs.
\* raised tells that pop(0) found the list empty (IndexError), which ends
\* the task.
RECURSIVE AdmitLoop(_, _, _)
AdmitLoop(q, slots, adm) ==
    IF QueueEmpty(q) \/ ~HasFreeSlot(slots)
    THEN [q |-> q, slots |-> slots, adm |-> adm, raised |-> FALSE]
    ELSE IF q = <<>>
    THEN [q |-> q, slots |-> slots, adm |-> adm, raised |-> TRUE]
    ELSE LET p == QueuePop(q)
         IN  AdmitLoop(p.rest, OccupySlot(slots, p.event), Append(adm, p.event))

\* ------------------------------------------------------------------ Init
\* The state after configure_queue and init(), each called once: the two
\* loop tasks are created and have not run yet, nothing is queued.
\* Positions of a loop task: none (not created), start (created, not yet
\* run), sleep, bcast (the notifier awaits its broadcast), exited (left the
\* loop on STOP), raised (ended by an exception).
Init ==
    /\ MAX_THREAD_COUNT \in ThreadCounts
    /\ LIVE_QUEUE_UPDATES \in BOOLEAN
    /\ EVENT_QUEUE = <<>>
    /\ ACTIVE_JOBS = [i \in 1..MAX_THREAD_COUNT |-> None]
    /\ STOP = FALSE
    /\ DURATION_HISTORY = <<>>
    /\ ESTIMATION = DefaultEstimation
    /\ data = [j \in Jobs |-> FALSE]
    /\ alive = [j \in Jobs |-> TRUE]
    /\ closed = [j \in Jobs |-> FALSE]
    /\ nPushed = 0
    /\ admPc = [t \in LoopTasks |-> IF t = 1 THEN "start" ELSE "none"]
    /\ notPc = [t \in LoopTasks |-> IF t = 1 THEN "start" ELSE "none"]
    /\ pc = [j \in Jobs |-> "none"]
    /\ prefetchTasks = 0
    /\ gNew = [j \in Jobs |-> 0]
    /\ gSend = [j \in Jobs |-> 0]
    /\ gRecv = [j \in Jobs |-> 0]
    /\ bcastTasks = 0
    /\ eNew = [b \in Broadcasts |-> [j \in Jobs |-> 0]]
    /\ eSend = [b \in Broadcasts |-> [j \in Jobs |-> 0]]
    /\ hist = [admitOrder |-> <<>>,
               unlocked |-> {},
               removed |-> [j \in Jobs |-> 0],
               cancelled |-> {},
               leftSeveral |-> FALSE,
               recorded |-> <<>>,
               completed |-> <<>>]

\* Positions of a process_event task that has not ended, and those of one
\* that has (by returning, or by an exception).
Running == {"start", "g_send", "g_recv", "starting", "backend", "completing",
            "closing"}
Ended == {"ended", "raised_backend", "raised_close", "raised_clean"}

\* Positions of a loop task that does not exist or has ended.
NoLoop == {"none", "exited", "raised"}

queueVars == <<EVENT_QUEUE, ACTIVE_JOBS>>
configVars == <<MAX_THREAD_COUNT, LIVE_QUEUE_UPDATES>>
estimatorVars == <<DURATION_HISTORY, ESTIMATION>>
channelVars == <<data, alive, closed>>
loopVars == <<admPc, notPc>>
gatherVars == <<prefetchTasks, gNew, gSend, gRecv>>
bcastVars == <<bcastTasks, eNew, eSend>>

\* --------------------------------------------------- external operations
\* A caller creates the next job on a live websocket and calls Queue.push;
\* callers push n jobs at most.
PushNext(n) ==
    /\ nPushed < n
    /\ nPushed' = nPushed + 1
    /\ EVENT_QUEUE' = PushEvent(EVENT_QUEUE, nPushed + 1)
    /\ hist' = NoteMut(hist, "push", FALSE)
    /\ UNCHANGED <<ACTIVE_JOBS, STOP, configVars, estimatorVars, channelVars,
                   loopVars, pc, gatherVars, bcastVars>>

Push == PushNext(NJobs)

\* A caller cancels job j, an event that was created and pushed: await
\* Queue.clean_event(event).
Cancel(j) ==
    /\ j <= nPushed
    /\ UNCHANGED <<ACTIVE_JOBS, STOP, configVars, estimatorVars, channelVars,
                   nPushed, loopVars, pc, gatherVars, bcastVars>>
    /\ EVENT_QUEUE' = CleanEvent(EVENT_QUEUE, j)
    /\ hist' = [NoteRemove(hist, EVENT_QUEUE, j) EXCEPT
                    !.cancelled = IF InQueue(j) THEN @ \cup {j} ELSE @]

\* Queue.close
Close ==
    /\ ~STOP
    /\ STOP' = TRUE
    /\ UNCHANGED <<queueVars, configVars, estimatorVars, channelVars, nPushed,
                   loopVars, pc, gatherVars, bcastVars, hist>>

\* Queue.resume
Resume ==
    /\ STOP
    /\ STOP' = FALSE
    /\ UNCHANGED <<queueVars, configVars, estimatorVars, channelVars, nPushed,
                   loopVars, pc, gatherVars, bcastVars, hist>>

\* The client of job j disconnects.
ClientDies(j) ==
    /\ j <= nPushed
    /\ alive[j]
    /\ alive' = [alive EXCEPT ![j] = FALSE]
    /\ UNCHANGED <<queueVars, STOP, configVars, estimatorVars, data, closed,
                   nPushed, loopVars, pc, gatherVars, bcastVars, hist>>

\* ------------------------------------------------------- set-up operations
\* Queue.configure_queue called again on the running dispatcher, with the
\* same data_gathering_start and duration_history_size: the concurrency limit
\* and the live-updates flag are stored and ACTIVE_JOBS is replaced by a list
\* of empty slots, whatever the old list held.
ConfigureQueue(threads, live) ==
    /\ MAX_THREAD_COUNT' = threads
    /\ LIVE_QUEUE_UPDATES' = live
    /\ ACTIVE_JOBS' = [i \in 1..threads |-> None]
    /\ UNCHANGED <<EVENT_QUEUE, STOP, estimatorVars, channelVars, nPushed,
                   loopVars, pc, gatherVars, bcastVars, hist>>

\* loops[t] after run_coro_in_background created a new loop task: it takes
\* the first index whose task does not exist or has ended.
NewLoopTask(loops) ==
    LET t == CHOOSE i \in LoopTasks :
                 /\ loops[i] \in NoLoop
                 /\ \A k \in 1..(i-1) : loops[k] \notin NoLoop
    IN  [loops EXCEPT ![t] = "start"]

\* Queue.init called again: a new notify_clients task and a new
\* start_processing task are created, next to those that still run; at most
\* MaxInits loop tasks of a kind run at a time.
InitTasks ==
    /\ \E t \in LoopTasks : admPc[t] \in NoLoop
    /\ \E t \in LoopTasks : notPc[t] \in NoLoop
    /\ notPc' = NewLoopTask(notPc)
    /\ admPc' = NewLoopTask(admPc)
    /\ UNCHANGED <<queueVars, STOP, configVars, estimatorVars, channelVars,
                   nPushed, pc, gatherVars, bcastVars, hist>>

\* ------------------------------------------------------- admission loop

\* The start_processing task t runs for the first time or resumes from a
\* sleep: it leaves the loop when STOP is set; otherwise it admits jobs until
\* the queue is empty or no slot is free, creating for each admitted job its
\* process_event task, one gather_data_for_first_ranks task and (with live
\* updates) one broadcast_estimation task, and sleeps.
StartProcessing(t) ==
    /\ admPc[t] \in {"start", "sleep"}
    /\ IF STOP
       THEN /\ admPc' = [admPc EXCEPT ![t] = "exited"]
            /\ UNCHANGED <<queueVars, pc, prefetchTasks, bcastTasks, hist>>
       ELSE LET r == AdmitLoop(EVENT_QUEUE, ACTIVE_JOBS, <<>>)
                n == Len(r.adm)
            IN  /\ EVENT_QUEUE' = r.q
                /\ ACTIVE_JOBS' = r.slots
                /\ pc' = [j \in Jobs |-> IF j \in Range(r.adm) THEN "start" ELSE pc[j]]
                /\ prefetchTasks' = prefetchTasks + n
                /\ bcastTasks' = bcastTasks + (IF LIVE_QUEUE_UPDATES THEN n ELSE 0)
                /\ hist' = IF n = 0 THEN hist ELSE NotePops(hist, r.adm)
                /\ admPc' = [admPc EXCEPT ![t] = IF r.raised THEN "raised" ELSE "sleep"]
    /\ UNCHANGED <<STOP, configVars, estimatorVars, channelVars, nPushed, notPc,
                   gNew, gSend, gRecv, eNew, eSend>>

\* ------------------------------------------------- process_event (per job)
\* Positions of the process_event task of a job:
\*   none        no task             start     created, not yet run
\*   g_send      awaiting the send of send_data in its gather_event_data
\*   g_recv      awaiting get_message() in its gather_event_data
\*   starting    awaiting the send of process_starts
\*   backend     awaiting the backend Request
\*   completing  awaiting the send of process_completed
\*   closing     awaiting event.disconnect()
\*   ended       returned
\*   raised_backend, raised_close, raised_clean   ended by an exception of
\*               the backend Request, of disconnect, of clean_job
\* Event.send_message awaits websocket.send_json; the result of a send is
\* read from the channel when the send ends.

\* Outcomes of websocket.close in Event.disconnect, which has no handler.
CloseOutcomes == {"ok", "raise"}

\* process_event calls clean_job and returns: the position reached and the
\* slots left.
Release(j, slots) ==
    [pc |-> IF CleanJobRaises(slots, j) THEN "raised_clean" ELSE "ended",
     slots |-> CleanJob(slots, j)]

\* Mutant of SendStarts: clean_job runs right after process_starts was sent,
\* before the backend is invoked.
SendStartsRelease(j, slots) ==
    [pc |-> IF alive[j] THEN "backend" ELSE "ended", slots |-> CleanJob(slots, j)]

\* process_event when the send of process_starts has ended: on True the
\* backend Request is awaited, on False clean_job runs and the task returns.
\* The position reached and the slots left.
SendStarts(j, slots) ==
    IF alive[j]
    THEN [pc |-> "backend", slots |-> slots]
    ELSE Release(j, slots)

\* First run of process_event(j).  gather_event_data returns at once when the
\* event has data, and process_starts is sent; otherwise send_data is sent.
ProcStart(j) ==
    /\ pc[j] = "start"
    /\ pc' = [pc EXCEPT ![j] = IF data[j] THEN "starting" ELSE "g_send"]
    /\ UNCHANGED <<queueVars, STOP, configVars, estimatorVars, channelVars,
                   nPushed, loopVars, gatherVars, bcastVars, hist>>

\* The send of send_data in process_event's gather_event_data ends: on True
\* get_message is awaited; on False clean_event runs, gather_event_data
\* returns and process_event sends process_starts.
ProcDataSent(j) ==
    /\ pc[j] = "g_send"
    /\ IF alive[j]
       THEN /\ pc' = [pc EXCEPT ![j] = "g_recv"]
            /\ UNCHANGED <<EVENT_QUEUE, hist>>
       ELSE /\ pc' = [pc EXCEPT ![j] = "starting"]
            /\ EVENT_QUEUE' = CleanEvent(EVENT_QUEUE, j)
            /\ hist' = NoteRemove(hist, EVENT_QUEUE, j)
    /\ UNCHANGED <<ACTIVE_JOBS, STOP, configVars, estimatorVars, channelVars,
                   nPushed, loopVars, gatherVars, bcastVars>>

\* get_message returns `got` inside process_event's gather_event_data:
\* event.data is the client's input, or None; process_event then sends
\* process_starts.
ProcReceives(j, got) ==
    /\ pc[j] = "g_recv"
    /\ data' = [data EXCEPT ![j] = (got = "payload")]
    /\ pc' = [pc EXCEPT ![j] = "starting"]
    /\ UNCHANGED <<queueVars, STOP, configVars, estimatorVars, alive, closed,
                   nPushed, loopVars, gatherVars, bcastVars, hist>>

ProcRecvDone(j) == \E got \in ReceiveOutcomes : ProcReceives(j, got)

\* The send of process_starts ends.
ProcStartsSent(j) ==
    /\ pc[j] = "starting"
    /\ LET r == SendStarts(j, ACTIVE_JOBS)
       IN  /\ ACTIVE_JOBS' = r.slots
           /\ pc' = [pc EXCEPT ![j] = r.pc]
    /\ UNCHANGED <<EVENT_QUEUE, STOP, configVars, estimatorVars, channelVars,
                   nPushed, loopVars, gatherVars, bcastVars, hist>>

\* The backend Request ends.  When it raises, the exception leaves
\* process_event.  When it returns, update_estimation runs and the send of
\* process_completed is awaited.  hist.recorded lists the durations given to
\* update_estimation.
ProcBackendEnds(j, outcome) ==
    /\ pc[j] = "backend"
    /\ IF outcome = "raise"
       THEN /\ pc' = [pc EXCEPT ![j] = "raised_backend"]
            /\ UNCHANGED <<estimatorVars, hist>>
       ELSE /\ DURATION_HISTORY' = NewHistory(DURATION_HISTORY, DurationOf(j))
            /\ ESTIMATION' \in NewEstimation(DURATION_HISTORY', DurationOf(j),
                                             MAX_THREAD_COUNT)
            /\ hist' = [hist EXCEPT !.recorded = Append(@, DurationOf(j))]
            /\ pc' = [pc EXCEPT ![j] = "completing"]
    /\ UNCHANGED <<queueVars, STOP, configVars, channelVars, nPushed, loopVars,
                   gatherVars, bcastVars>>

ProcBackendDone(j) ==
    \E outcome \in BackendOutcomes : ProcBackendEnds(j, outcome)

\* Mutant of ShouldClose: the channel is closed whatever the delivery gave.
ShouldCloseAlways(client_awake) == TRUE

\* `if client_awake: await event.disconnect()`
ShouldClose(client_awake) == client_awake

\* The send of process_completed ends: on True event.disconnect() is
\* awaited, on False clean_job runs at once.  hist.completed lists the jobs
\* whose process_completed send returned True.
ProcCompletedSent(j) ==
    /\ pc[j] = "completing"
    /\ hist' = [hist EXCEPT !.completed = IF alive[j] THEN Append(@, j) ELSE @]
    /\ IF ShouldClose(alive[j])
       THEN /\ pc' = [pc EXCEPT ![j] = "closing"]
            /\ UNCHANGED ACTIVE_JOBS
       ELSE LET r == Release(j, ACTIVE_JOBS)
            IN  /\ ACTIVE_JOBS' = r.slots
                /\ pc' = [pc EXCEPT ![j] = r.pc]
    /\ UNCHANGED <<EVENT_QUEUE, STOP, configVars, estimatorVars, channelVars,
                   nPushed, loopVars, gatherVars, bcastVars>>

\* event.disconnect() ends: the websocket is closed and clean_job runs, or
\* close raises and the exception leaves process_event.
ProcCloseEnds(j, closing) ==
    /\ pc[j] = "closing"
    /\ IF closing = "raise"
       THEN /\ pc' = [pc EXCEPT ![j] = "raised_close"]
            /\ UNCHANGED <<ACTIVE_JOBS, alive, closed>>
       ELSE LET r == Release(j, ACTIVE_JOBS)
            IN  /\ closed' = [closed EXCEPT ![j] = TRUE]
                /\ alive' = [alive EXCEPT ![j] = FALSE]
                /\ ACTIVE_JOBS' = r.slots
                /\ pc' = [pc EXCEPT ![j] = r.pc]
    /\ UNCHANGED <<EVENT_QUEUE, STOP, configVars, estimatorVars, data, nPushed,
                   loopVars, gatherVars, bcastVars, hist>>

ProcCloseDone(j) == \E closing \in CloseOutcomes : ProcCloseEnds(j, closing)

\* ----------------------------------------------------------------- prefetch
\* A gather_data_for_first_ranks task runs: it takes the first
\* DATA_GATHERING_STARTS_AT pending events and waits in asyncio.gather for
\* one gather_event_data subtask per event, which runs later.
PrefetchStart ==
    /\ prefetchTasks > 0
    /\ prefetchTasks' = prefetchTasks - 1
    /\ LET first == Range(Prefix(EVENT_QUEUE, DATA_GATHERING_STARTS_AT))
       IN  gNew' = [j \in Jobs |-> IF j \in first THEN gNew[j] + 1 ELSE gNew[j]]
    /\ UNCHANGED <<queueVars, STOP, configVars, estimatorVars, channelVars,
                   nPushed, loopVars, pc, gSend, gRecv, bcastVars, hist>>

\* A gather_event_data(j) subtask of a prefetch runs: it returns when the
\* event has data; otherwise send_data is sent.
GatherStart(j) ==
    /\ gNew[j] > 0
    /\ gNew' = [gNew EXCEPT ![j] = @ - 1]
    /\ gSend' = IF data[j] THEN gSend ELSE [gSend EXCEPT ![j] = @ + 1]
    /\ UNCHANGED <<queueVars, STOP, configVars, estimatorVars, channelVars,
                   nPushed, loopVars, pc, prefetchTasks, gRecv, bcastVars, hist>>

\* The send of send_data in a prefetch subtask ends: on True get_message is
\* awaited, on False clean_event runs.
GatherDataSent(j) ==
    /\ gSend[j] > 0
    /\ gSend' = [gSend EXCEPT ![j] = @ - 1]
    /\ IF alive[j]
       THEN /\ gRecv' = [gRecv EXCEPT ![j] = @ + 1]
            /\ UNCHANGED <<EVENT_QUEUE, hist>>
       ELSE /\ EVENT_QUEUE' = CleanEvent(EVENT_QUEUE, j)
            /\ hist' = NoteRemove(hist, EVENT_QUEUE, j)
            /\ UNCHANGED gRecv
    /\ UNCHANGED <<ACTIVE_JOBS, STOP, configVars, estimatorVars, channelVars,
                   nPushed, loopVars, pc, prefetchTasks, gNew, bcastVars>>

\* get_message returns `got` in a prefetch subtask: event.data is the
\* client's input, or None.
GatherReceives(j, got) ==
    /\ gRecv[j] > 0
    /\ gRecv' = [gRecv EXCEPT ![j] = @ - 1]
    /\ data' = [data EXCEPT ![j] = (got = "payload")]
    /\ UNCHANGED <<queueVars, STOP, configVars, estimatorVars, alive, closed,
                   nPushed, loopVars, pc, prefetchTasks, gNew, gSend, bcastVars,
                   hist>>

GatherRecvDone(j) == \E got \in ReceiveOutcomes : GatherReceives(j, got)

\* --------------------------------------------------------------- broadcast
\* broadcast_estimation called by b: one more send_estimation subtask per
\* pending event.
Subtasks(b) ==
    [eNew EXCEPT ![b] = [j \in Jobs |-> IF InQueue(j) THEN @[j] + 1 ELSE @[j]]]

\* What the int field queue_duration of the Estimation model makes of the
\* value of ESTIMATION (hundredths of a second here).  A whole number of
\* seconds is taken as it is.  A float with a fraction is cut to an int by
\* pydantic 1 and rejected with a ValidationError by pydantic 2; the code
\* runs with the one that is installed.
IntFieldOutcomes(est) ==
    IF est % 100 = 0 THEN {"int"} ELSE {"truncated", "rejected"}

\* int(x) for the float held in ESTIMATION: the fraction is cut off.
IntField(est) == est \div 100

\* get_estimation, when the model accepts the values: the Estimation object
\* built from the queue length and ESTIMATION; both fields are declared int.
\* Each send_estimation subtask of the broadcast is handed this object.
GetEstimation(q, est) ==
    [queue_size |-> Len(q), queue_duration |-> IntField(est)]

\* A broadcast_estimation task created by an admission loop runs: it builds
\* the estimation and creates the subtasks, or ends by the ValidationError.
BroadcastStart ==
    /\ bcastTasks > 0
    /\ bcastTasks' = bcastTasks - 1
    /\ \E built \in IntFieldOutcomes(ESTIMATION) :
          eNew' = IF built = "rejected" THEN eNew ELSE Subtasks(FromAdmission)
    /\ UNCHANGED <<queueVars, STOP, configVars, estimatorVars, channelVars,
                   nPushed, loopVars, pc, gatherVars, eSend, hist>>

\* A send_estimation(j) subtask of a broadcast runs: the estimation is sent.
EstimationSend(j) ==
    /\ \E b \in Broadcasts :
          /\ eNew[b][j] > 0
          /\ eNew' = [eNew EXCEPT ![b][j] = @ - 1]
          /\ eSend' = [eSend EXCEPT ![b][j] = @ + 1]
    /\ UNCHANGED <<queueVars, STOP, configVars, estimatorVars, channelVars,
                   nPushed, loopVars, pc, gatherVars, bcastTasks, hist>>

\* The send of the estimation ends: on False clean_event runs, which lets no
\* exception out.
EstimationSent(j) ==
    /\ \E b \in Broadcasts :
          /\ eSend[b][j] > 0
          /\ eSend' = [eSend EXCEPT ![b][j] = @ - 1]
    /\ EVENT_QUEUE' = IF alive[j] THEN EVENT_QUEUE ELSE CleanEvent(EVENT_QUEUE, j)
    /\ hist' = IF alive[j] THEN hist ELSE NoteRemove(hist, EVENT_QUEUE, j)
    /\ UNCHANGED <<ACTIVE_JOBS, STOP, configVars, estimatorVars, channelVars,
                   nPushed, loopVars, pc, gatherVars, bcastTasks, eNew>>

\* ------------------------------------------------------- periodic notifier
\* The notify_clients task t runs for the first time: it tests STOP and goes
\* to sleep.
NotifyStart(t) ==
    /\ notPc[t] = "start"
    /\ notPc' = [notPc EXCEPT ![t] = IF STOP THEN "exited" ELSE "sleep"]
    /\ UNCHANGED <<queueVars, STOP, configVars, estimatorVars, channelVars,
                   nPushed, admPc, pc, gatherVars, bcastVars, hist>>

\* The notify_clients task t resumes from its sleep.  With an empty queue it
\* goes back to the loop test; otherwise it runs broadcast_estimation itself
\* and waits for the subtasks, or is ended by the ValidationError of
\* get_estimation, for which it has no handler.  STOP is not read between
\* the sleep and the broadcast.
NotifyWake(t) ==
    /\ notPc[t] = "sleep"
    /\ IF EVENT_QUEUE = <<>>
       THEN /\ notPc' = [notPc EXCEPT ![t] = IF STOP THEN "exited" ELSE "sleep"]
            /\ UNCHANGED eNew
       ELSE \E built \in IntFieldOutcomes(ESTIMATION) :
               IF built = "rejected"
               THEN /\ notPc' = [notPc EXCEPT ![t] = "raised"]
                    /\ UNCHANGED eNew
               ELSE /\ notPc' = [notPc EXCEPT ![t] = "bcast"]
                    /\ eNew' = Subtasks(t)
    /\ UNCHANGED <<queueVars, STOP, configVars, estimatorVars, channelVars,
                   nPushed, admPc, pc, gatherVars, bcastTasks, eSend, hist>>

\* The subtasks of the broadcast of notifier t are done, whatever the
\* subtasks of other broadcasts do: back to the loop test, then the next
\* sleep.
NotifyLoop(t) ==
    /\ notPc[t] = "bcast"
    /\ \A j \in Jobs : eNew[t][j] = 0 /\ eSend[t][j] = 0
    /\ notPc' = [notPc EXCEPT ![t] = IF STOP THEN "exited" ELSE "sleep"]
    /\ UNCHANGED <<queueVars, STOP, configVars, estimatorVars, channelVars,
                   nPushed, admPc, pc, gatherVars, bcastVars, hist>>

\* ------------------------------------------------------------------- Next
\* The steps of the tasks that the dispatcher creates for its jobs.
JobTaskStep ==
    \/ \E j \in Jobs : ProcStart(j)
    \/ \E j \in Jobs : ProcDataSent(j)
    \/ \E j \in Jobs : ProcRecvDone(j)
    \/ \E j \in Jobs : ProcStartsSent(j)
    \/ \E j \in Jobs : ProcBackendDone(j)
    \/ \E j \in Jobs : ProcCompletedSent(j)
    \/ \E j \in Jobs : ProcCloseDone(j)
    \/ PrefetchStart
    \/ \E j \in Jobs : GatherStart(j)
    \/ \E j \in Jobs : GatherDataSent(j)
    \/ \E j \in Jobs : GatherRecvDone(j)
    \/ BroadcastStart
    \/ \E j \in Jobs : EstimationSend(j)
    \/ \E j \in Jobs : EstimationSent(j)

\* The client of job j answers send_data with its input.
InputReceived(j) == ProcReceives(j, "payload")

PrefetchInputReceived(j) == GatherReceives(j, "payload")

\* The steps of those tasks when every client answers send_data with its
\* input.
AnsweredTaskStep ==
    \/ \E j \in Jobs : ProcStart(j)
    \/ \E j \in Jobs : ProcDataSent(j)
    \/ \E j \in Jobs : InputReceived(j)
    \/ \E j \in Jobs : ProcStartsSent(j)
    \/ \E j \in Jobs : ProcBackendDone(j)
    \/ \E j \in Jobs : ProcCompletedSent(j)
    \/ \E j \in Jobs : ProcCloseDone(j)
    \/ PrefetchStart
    \/ \E j \in Jobs : GatherStart(j)
    \/ \E j \in Jobs : GatherDataSent(j)
    \/ \E j \in Jobs : PrefetchInputReceived(j)
    \/ BroadcastStart
    \/ \E j \in Jobs : EstimationSend(j)
    \/ \E j \in Jobs : EstimationSent(j)

\* The steps of those tasks when a single job is pushed: a prefetch runs
\* after the admission that created it, finds no job pending and creates no
\* gather_event_data subtask.
SingleJobTaskStep ==
    \/ \E j \in Jobs : ProcStart(j)
    \/ \E j \in Jobs : ProcDataSent(j)
    \/ \E j \in Jobs : ProcRecvDone(j)
    \/ \E j \in Jobs : ProcStartsSent(j)
    \/ \E j \in Jobs : ProcBackendDone(j)
    \/ \E j \in Jobs : ProcCompletedSent(j)
    \/ \E j \in Jobs : ProcCloseDone(j)
    \/ PrefetchStart
    \/ BroadcastStart
    \/ \E j \in Jobs : EstimationSend(j)
    \/ \E j \in Jobs : EstimationSent(j)

\* The steps of the two kinds of loop tasks.
LoopStep ==
    \/ \E t \in LoopTasks : StartProcessing(t)
    \/ \E t \in LoopTasks : NotifyStart(t)
    \/ \E t \in LoopTasks : NotifyWake(t)
    \/ \E t \in LoopTasks : NotifyLoop(t)

\* The dispatcher after configure_queue and init(), never stopped: callers
\* push and cancel, clients disconnect, receives, backends and closes fail.
Next ==
    \/ Push
    \/ \E j \in Jobs : Cancel(j)
    \/ \E j \in Jobs : ClientDies(j)
    \/ LoopStep
    \/ JobTaskStep

Spec == Init /\ [][Next]_vars

\* ------------------------------------------------------------ SpecSerial
\* The dispatcher configured with concurrency limit 1, NSerial jobs pushed,
\* clients that stay connected until the dispatcher closes their channel and
\* answer every send_data with their input, and no caller cancelling.
InitSerial ==
    /\ Init
    /\ MAX_THREAD_COUNT = 1

PushSerial == PushNext(NSerial)

NextSerial ==
    \/ PushSerial
    \/ LoopStep
    \/ AnsweredTaskStep

SpecSerial == InitSerial /\ [][NextSerial]_vars

\* ------------------------------------------------------------ SpecCancel
\* The dispatcher of SpecSerial (concurrency limit 1, NSerial jobs pushed,
\* clients that stay connected and answer) with callers that cancel jobs at
\* any moment: three jobs wait together and any of them is removed.
NextCancel ==
    \/ PushSerial
    \/ \E j \in Jobs : Cancel(j)
    \/ LoopStep
    \/ AnsweredTaskStep

SpecCancel == InitSerial /\ [][NextCancel]_vars

\* -------------------------------------------------------------- SpecStop
\* The dispatcher with callers that stop it (Queue.close), resume it, start
\* its loops again (Queue.init) and configure it again at any moment;
\* NStop job is pushed, its client stays connected and no caller cancels.
PushStop == PushNext(NStop)

NextStop ==
    \/ PushStop
    \/ Close
    \/ Resume
    \/ InitTasks
    \/ \E threads \in ThreadCounts, live \in BOOLEAN : ConfigureQueue(threads, live)
    \/ LoopStep
    \/ SingleJobTaskStep

SpecStop == Init /\ [][NextStop]_vars

\* -------------------------------------------------------------- SpecLive
\* The dispatcher started and never stopped, NJobs jobs pushed, clients
\* that stay connected and answer every send_data with their input, backend
\* invocations that return, and channels that close without an error.  The
\* event loop runs every task that is ready and every sleep ends: each step
\* of the admission loop, of the notifier and of the tasks they create is
\* weakly fair, and so are the returns of get_message, of the backend, of the
\* sends and of the close.
BackendReturned(j) == ProcBackendEnds(j, "ok")

ChannelClosed(j) == ProcCloseEnds(j, "ok")

NextLive ==
    \/ Push
    \/ LoopStep
    \/ \E j \in Jobs : ProcStart(j)
    \/ \E j \in Jobs : ProcDataSent(j)
    \/ \E j \in Jobs : InputReceived(j)
    \/ \E j \in Jobs : ProcStartsSent(j)
    \/ \E j \in Jobs : BackendReturned(j)
    \/ \E j \in Jobs : ProcCompletedSent(j)
    \/ \E j \in Jobs : ChannelClosed(j)
    \/ PrefetchStart
    \/ \E j \in Jobs : GatherStart(j)
    \/ \E j \in Jobs : GatherDataSent(j)
    \/ \E j \in Jobs : PrefetchInputReceived(j)
    \/ BroadcastStart
    \/ \E j \in Jobs : EstimationSend(j)
    \/ \E j \in Jobs : EstimationSent(j)

FairLive ==
    /\ WF_vars(PrefetchStart)
    /\ WF_vars(BroadcastStart)
    /\ \A t \in LoopTasks :
          /\ WF_vars(StartProcessing(t))
          /\ WF_vars(NotifyStart(t))
          /\ WF_vars(NotifyWake(t))
          /\ WF_vars(NotifyLoop(t))
    /\ \A j \in 1..NJobs :
          /\ WF_vars(ProcStart(j))
          /\ WF_vars(ProcDataSent(j))
          /\ WF_vars(InputReceived(j))
          /\ WF_vars(ProcStartsSent(j))
          /\ WF_vars(BackendReturned(j))
          /\ WF_vars(ProcCompletedSent(j))
          /\ WF_vars(ChannelClosed(j))
          /\ WF_vars(GatherStart(j))
          /\ WF_vars(GatherDataSent(j))
          /\ WF_vars(PrefetchInputReceived(j))
          /\ WF_vars(EstimationSend(j))
          /\ WF_vars(EstimationSent(j))

SpecLive == Init /\ [][NextLive]_vars /\ FairLive

\* --------------------------------------------------------- SpecEstimator
\* Queue.update_estimation called with any sequence of at most MaxUpdates
\* durations, on an idle dispatcher.
UpdateEstimation(d) ==
    /\ Len(hist.recorded) < MaxUpdates
    /\ DURATION_HISTORY' = NewHistory(DURATION_HISTORY, d)
    /\ ESTIMATION' \in NewEstimation(DURATION_HISTORY', d, MAX_THREAD_COUNT)
    /\ hist' = [hist EXCEPT !.recorded = Append(@, d)]
    /\ UNCHANGED <<queueVars, STOP, configVars, channelVars, nPushed, loopVars,
                   pc, gatherVars, bcastVars>>

NextEstimator == \E d \in Durations : UpdateEstimation(d)

SpecEstimator == Init /\ [][NextEstimator]_vars

\* ----------------------------------------------------------------- claims

\* C1: in every reachable state the number of occupied slots is at most the
\* concurrency limit, no job occupies two slots, and no job is in a slot and
\* in the pending queue at the same time.
C1_SlotsBoundedAndDisjoint ==
    /\ Len(ACTIVE_JOBS) = MAX_THREAD_COUNT
    /\ Cardinality({i \in 1..Len(ACTIVE_JOBS) : ACTIVE_JOBS[i] # None})
          <= MAX_THREAD_COUNT
    /\ \A i, k \in 1..Len(ACTIVE_JOBS) :
          (i # k /\ ACTIVE_JOBS[i] # None) => ACTIVE_JOBS[i] # ACTIVE_JOBS[k]
    /\ \A j \in Jobs : ~(InSlot(j) /\ InQueue(j))
    /\ \A i, k \in 1..Len(EVENT_QUEUE) : i # k => EVENT_QUEUE[i] # EVENT_QUEUE[k]

\* Two jobs occupy the two slots of a dispatcher with concurrency limit 2
\* while both execution tasks run.
C1_Witness ==
    /\ MAX_THREAD_COUNT = 2
    /\ ACTIVE_JOBS[1] # None /\ ACTIVE_JOBS[2] # None
    /\ \A j \in 1..NJobs : pc[j] \in Running

\* Strictly increasing sequence of job numbers (jobs are numbered by push
\* order).
Increasing(s) == \A i, k \in 1..Len(s) : i < k => s[i] < s[k]

\* C2: admission is FIFO.  Jobs are admitted in the order in which they were
\* pushed, and the pending queue always holds its jobs in push order, so no
\* removal by clean_event reorders the jobs that stay pending.
C2_FifoAdmission ==
    /\ Increasing(hist.admitOrder)
    /\ Increasing(EVENT_QUEUE)

\* Three jobs were pending together, the second was removed by clean_event
\* while the other two stayed pending, and these two have been admitted.
C2_Witness ==
    /\ hist.leftSeveral
    /\ hist.cancelled = {2}
    /\ hist.admitOrder = <<1, 3>>

\* The data fetch of job j's execution task fails in this step: send_data
\* is sent on a dead channel, or get_message returns the dead signal.
FetchFails(j) ==
    \/ ProcDataSent(j) /\ ~alive[j]
    \/ ProcReceives(j, "none")

\* C3 (as claimed): once a job's channel is found dead during the data fetch
\* of its execution task (send_data failed, or the receive failed), the job is
\* abandoned: its slot is released, it is not pending, and the task ends
\* without sending process_starts.
C3_NoMessageAfterDeadFetch ==
    [][\A j \in Jobs :
          FetchFails(j) =>
              /\ ~InSlot(j)'
              /\ ~InQueue(j)'
              /\ pc'[j] \in Ended]_vars

\* C4 (as claimed): when the execution task of an admitted job has ended, on
\* whatever path, the job's slot has been released.
C4_SlotReleasedOnEveryPath ==
    \A j \in Jobs : pc[j] \in Ended => ~InSlot(j)

\* C5 (as claimed): a failed backend invocation is surfaced.  No execution
\* task ends at the failed backend call: it goes on to attempt the delivery
\* of a message to the client, who was sent process_starts.
C5_BackendFailureSurfaced ==
    \A j \in Jobs : pc[j] # "raised_backend"

\* C6: a job cancelled (clean_event) while it is pending leaves the pending
\* queue, is never put into a slot afterwards, and no execution task is ever
\* started for it.
C6_CancelledNeverAdmitted ==
    \A j \in hist.cancelled :
        /\ ~InQueue(j)
        /\ ~InSlot(j)
        /\ pc[j] = "none"
        /\ j \notin Range(hist.admitOrder)

\* A job was cancelled while pending and the admission loop has since
\* admitted a job pushed after it.
C6_Witness ==
    \E j \in hist.cancelled :
        \E k \in Range(hist.admitOrder) : k > j

\* C7: cancel (clean_event) applied to a job that is not in the pending queue
\* (admitted into a slot, or in neither) changes neither the pending queue,
\* nor the slots, nor the estimator, and leaves every execution task where it
\* is.
C7_CancelOfAbsentJobIsNoop ==
    [][\A j \in Jobs :
          (Cancel(j) /\ ~InQueue(j)) =>
              UNCHANGED <<EVENT_QUEUE, ACTIVE_JOBS, DURATION_HISTORY,
                          ESTIMATION, pc>>]_vars

\* Cancel has removed a pending job, which is now in neither the queue nor a
\* slot, while another job is in a slot and its execution task awaits the
\* backend: a cancel of either is the case of the claim.
C7_Witness ==
    \E j \in hist.cancelled :
        /\ ~InQueue(j) /\ ~InSlot(j)
        /\ \E k \in Jobs \ {j} : InSlot(k) /\ pc[k] = "backend"

\* Each job pushed is pending and was never removed, or is no longer pending
\* and was removed exactly once (by the admission loop's pop or by one
\* clean_event); the admission loop never popped from an empty list.
RemovedExactlyOnce ==
    /\ \A j \in Jobs :
          hist.removed[j] = IF j <= nPushed /\ ~InQueue(j) THEN 1 ELSE 0
    /\ \A t \in LoopTasks : admPc[t] # "raised"

\* C8 (as claimed): every change of the pending queue, push's append
\* included, is made under the queue lock, and each pending job is removed by
\* exactly one of the admission loop and clean_event.
C8_AllMutationsLocked ==
    /\ hist.unlocked = {}
    /\ RemovedExactlyOnce

\* C9 (as claimed): while STOP stays set, no job is admitted into a slot, no
\* per-admission broadcast task is spawned, and the periodic notifier does not
\* begin a broadcast.
C9_NothingStartsAfterStop ==
    [][(STOP /\ STOP') =>
          /\ \A j \in Jobs : InSlot(j)' => InSlot(j)
          /\ bcastTasks' <= bcastTasks
          /\ \A t \in LoopTasks : notPc'[t] = "bcast" => notPc[t] = "bcast"]_vars

\* C10 (as claimed): a job that occupies a slot while STOP is set has its
\* execution task run to its end with the slot released: the step that ends
\* the task leaves the slot empty.
C10_InFlightJobsFinishAfterStop ==
    [][\A j \in Jobs :
          (STOP /\ STOP' /\ InSlot(j) /\ pc[j] \in Running /\ pc'[j] \in Ended)
              => ~InSlot(j)']_vars

\* Jobs that were sent process_starts and have not released their slot.
Processing ==
    {j \in Jobs : pc[j] \in {"backend", "completing", "closing",
                              "raised_backend", "raised_close"}}

\* C11: with concurrency limit 1 and clients that stay alive, at most one job
\* is between process_starts and the release of its slot, process_completed is
\* delivered in push order, and a job is sent process_starts only when every
\* job pushed before it has been delivered its process_completed.
C11_SerialCompletionOrder ==
    /\ Cardinality(Processing) <= 1
    /\ Increasing(hist.completed)
    /\ \A k \in Processing \cup Range(hist.completed) :
          \A i \in 1..(k-1) : i \in Range(hist.completed)

\* Three jobs were pushed and each was delivered its process_completed.
C11_Witness == hist.completed = <<1, 2, 3>>

\* C12 (as claimed): a pending job whose client has disconnected is never put
\* into a slot, and the next broadcast that sends to it, or the next prefetch
\* that requests its data, removes it from the pending queue.
C12_DeadPendingJobNeverAdmitted ==
    [][\A j \in Jobs :
          (InQueue(j) /\ ~alive[j]) =>
              /\ ~InSlot(j)'
              /\ EstimationSent(j) => ~InQueue(j)'
              /\ GatherDataSent(j) => ~InQueue(j)']_vars

\* The last n elements of s (all of s when it is shorter).
LastN(s, n) == SubSeq(s, IF Len(s) > n THEN Len(s) - n + 1 ELSE 1, Len(s))

\* C13: after N update_estimation calls with window W, DURATION_HISTORY holds
\* exactly the most recent min(N, W) durations in the order they were
\* recorded, and never more than W.
C13_HistoryIsRecentWindow ==
    /\ DURATION_HISTORY = LastN(hist.recorded, DURATION_HISTORY_SIZE)
    /\ Len(DURATION_HISTORY) <= DURATION_HISTORY_SIZE
    /\ Len(DURATION_HISTORY) =
          IF Len(hist.recorded) < DURATION_HISTORY_SIZE
          THEN Len(hist.recorded) ELSE DURATION_HISTORY_SIZE

\* More durations than the window holds were recorded, the evicted ones
\* differing from those kept.
C13_Witness ==
    /\ Len(hist.recorded) = MaxUpdates
    /\ Len(hist.recorded) > DURATION_HISTORY_SIZE
    /\ hist.recorded[1] # hist.recorded[Len(hist.recorded)]
    /\ hist.recorded[1] \notin Range(DURATION_HISTORY)

Abs(x) == IF x < 0 THEN -x ELSE x

\* e (hundredths of a second) is num/den milliseconds rounded to 2 decimals
\* of a second: a hundredth nearest to it.
IsRounded(e, num, den) == 2 * Abs(10 * e * den - num) <= 10 * den

\* C14: after every update_estimation(d) the stored ETA is
\* average(history after append and eviction) / concurrency limit + d rounded
\* to 2 decimals; when the full window holds only the duration d, with limit
\* c, it is d/c + d rounded to 2 decimals.
C14_EtaFormula ==
    IF hist.recorded = <<>> THEN ESTIMATION = DefaultEstimation
    ELSE LET d == hist.recorded[Len(hist.recorded)]
             window == LastN(hist.recorded, DURATION_HISTORY_SIZE)
             n == Len(window)
             c == MAX_THREAD_COUNT
         IN  /\ IsRounded(ESTIMATION, SumSeq(window) + d * n * c, n * c)
             /\ (n = DURATION_HISTORY_SIZE /\ \A i \in 1..n : window[i] = d)
                  => IsRounded(ESTIMATION, d + d * c, c)

\* The window is full of one duration, with concurrency limit 2, after other
\* durations were evicted; the ETA needed rounding (375 ms to 0.38 s).
C14_Witness ==
    /\ MAX_THREAD_COUNT = 2
    /\ Len(hist.recorded) > DURATION_HISTORY_SIZE
    /\ hist.recorded[1] = 1000
    /\ DURATION_HISTORY = [i \in 1..DURATION_HISTORY_SIZE |-> 250]
    /\ ESTIMATION = 38

\* C15 (as claimed): estimation messages go only to jobs that are still
\* pending, before their process_starts: no send_estimation sends on the
\* channel of a job that the admission loop has admitted.
C15_NoEstimationAfterAdmission ==
    [][\A j \in Jobs :
          EstimationSend(j) => j \notin Range(hist.admitOrder)]_vars

\* C16 (as claimed): no failure of a job (dead channel, failed receive,
\* failing backend, failing close) ends the admission loop or the periodic
\* notifier: neither ever ends by an exception, each leaves its loop only in
\* a step that sees STOP set, and a step in which one job's execution task
\* ends leaves every other execution task where it is.
C16_FailuresStayInTheirJob ==
    [][/\ \A t \in LoopTasks :
             /\ admPc'[t] # "raised"
             /\ notPc'[t] # "raised"
             /\ (admPc'[t] = "exited" /\ admPc[t] # "exited") => STOP
             /\ (notPc'[t] = "exited" /\ notPc[t] # "exited") => STOP
       /\ \A j \in Jobs :
             (pc[j] \in Running /\ pc'[j] \in Ended) =>
                 \A k \in Jobs \ {j} : pc'[k] = pc[k]]_vars

\* C17 (as claimed): a receive of the client's input that fails during data
\* gathering is treated as a dead channel: when get_message returns the dead
\* signal in a prefetch, the job leaves the pending queue.
C17_FailedReceiveRemovesJob ==
    [][\A j \in Jobs :
          GatherReceives(j, "none") => ~InQueue(j)']_vars

\* C18: every job the admission loop pops is put, in the same step, into the
\* lowest-index empty slot: a job leaves the pending queue for a slot exactly
\* when it is admitted, an occupied slot is never overwritten, and the slots
\* filled are the first empty ones, in admission order.
C18_PopAndOccupyAreOneStep ==
    [][LET Slots == 1..Len(ACTIVE_JOBS)
           Filled == {i \in Slots : ACTIVE_JOBS[i] = None /\ ACTIVE_JOBS'[i] # None}
       IN  /\ \A j \in Jobs :
                 (j \in Range(hist'.admitOrder) /\ j \notin Range(hist.admitOrder))
                     <=> (~InSlot(j) /\ InSlot(j)')
           /\ \A j \in Jobs :
                 (~InSlot(j) /\ InSlot(j)') => (InQueue(j) /\ ~InQueue(j)')
           /\ \A i \in Slots :
                 (ACTIVE_JOBS[i] # None /\ ACTIVE_JOBS'[i] # None)
                     => ACTIVE_JOBS'[i] = ACTIVE_JOBS[i]
           /\ \A i \in Filled :
                 \A k \in 1..(i-1) :
                     /\ ACTIVE_JOBS'[k] # None
                     /\ k \in Filled => ACTIVE_JOBS'[k] < ACTIVE_JOBS'[i]]_vars

\* With two slots, the first job took slot 1 and released it, and the second
\* job was then put into slot 1 again, slot 2 staying empty.
C18_Witness ==
    /\ MAX_THREAD_COUNT = 2
    /\ hist.admitOrder = <<1, 2>>
    /\ ACTIVE_JOBS = <<2, None>>

\* The backend invocation of job j returns in this step.
BackendReturns(j) == pc[j] = "backend" /\ pc'[j] = "completing"

\* C19: the estimator changes only in a step in which the backend invocation
\* of an admitted job returns; each such step appends exactly that job's
\* duration at the end of the history (so the history is in completion
\* order), before process_completed is delivered to the job; no other step
\* (abandoning a job on a dead channel, a failing backend, cancel, prefetch,
\* broadcast) changes the history or the ETA.
C19_EstimatorChangesOnlyOnReturn ==
    [][/\ \A j \in Jobs :
             BackendReturns(j) =>
                 /\ InSlot(j)
                 /\ DURATION_HISTORY' =
                       LastN(Append(DURATION_HISTORY, DurationOf(j)),
                             DURATION_HISTORY_SIZE)
                 /\ hist'.recorded = Append(hist.recorded, DurationOf(j))
                 /\ j \notin Range(hist'.completed)
       /\ (\A j \in Jobs : ~BackendReturns(j)) =>
             /\ UNCHANGED <<DURATION_HISTORY, ESTIMATION>>
             /\ hist'.recorded = hist.recorded]_vars

\* Two jobs ran side by side and the one pushed second returned first: the
\* history is in completion order.
C19_Witness ==
    /\ hist.admitOrder = <<1, 2>>
    /\ DURATION_HISTORY = <<DurationOf(2), DurationOf(1)>>

\* C20: the dispatcher closes a job's channel exactly when the delivery of
\* process_completed on it succeeded (and the close itself did not fail): the
\* close is made by the job's execution task after that delivery, at most
\* once, and never for a job whose delivery failed, that was abandoned on a
\* dead channel, or that was removed while pending.
C20_ClosedIffDelivered ==
    [][\A j \in Jobs :
          /\ closed'[j] <=> (j \in Range(hist'.completed) /\ pc'[j] = "ended")
          /\ (closed'[j] /\ ~closed[j]) => pc[j] = "closing"
          /\ closed[j] => (closed'[j] /\ pc'[j] = pc[j])]_vars

\* One job was delivered its result and its channel was closed; the backend of
\* another returned, the delivery failed, and its channel was not closed.
C20_Witness ==
    \E j, k \in Jobs :
        /\ closed[j]
        /\ pc[k] = "ended" /\ ~closed[k]
        /\ DurationOf(k) \in Range(DURATION_HISTORY)

\* C21 (as claimed): every estimation message reports queue_size equal to
\* the number of pending jobs at the moment the estimate is computed and
\* queue_duration equal to the estimator's current ETA (ESTIMATION, kept in
\* hundredths of a second); a notifier that wakes up on an empty pending
\* queue starts no send_estimation subtask.  The estimation is the object
\* that get_estimation builds in the step that creates the subtasks, each of
\* which is handed that object.
EstimationComputed ==
    \E b \in Broadcasts, j \in Jobs : eNew'[b][j] > eNew[b][j]

C21_EstimationReportsQueueAndEta ==
    [][/\ EstimationComputed =>
              LET estimation == GetEstimation(EVENT_QUEUE, ESTIMATION)
              IN  /\ estimation.queue_size = Len(EVENT_QUEUE)
                  /\ 100 * estimation.queue_duration = ESTIMATION
       /\ \A t \in LoopTasks :
             (NotifyWake(t) /\ EVENT_QUEUE = <<>>) => eNew' = eNew]_vars

\* C22 (as claimed): for any job at most one data-gathering exchange is
\* outstanding: every task that waits in get_message for the job's input has
\* sent send_data while the payload was absent, and at most one such task (a
\* prefetch subtask or the job's own process_event) waits at any time.
Awaiting(j) == gRecv[j] + (IF pc[j] = "g_recv" THEN 1 ELSE 0)

C22_OneGatheringExchangePerJob == \A j \in Jobs : Awaiting(j) <= 1

\* C23: while the dispatcher runs and is not stopped, with fair scheduling,
\* clients that stay connected and answer, and backends that return, every
\* job in the pending queue is eventually in a slot, and every job in a slot
\* eventually has received process_completed with its slot empty again; an
\* execution task that has ended has delivered process_completed and holds no
\* slot.
Delivered(j) == j \in Range(hist.completed)

C23_EveryJobIsServed ==
    \A j \in 1..NJobs :
        /\ InQueue(j) ~> InSlot(j)
        /\ InSlot(j) ~> (Delivered(j) /\ ~InSlot(j))
        /\ [](pc[j] \in Ended => (Delivered(j) /\ ~InSlot(j)))

\* With one slot all the jobs have been served, so each later job waited for
\* the slot of an earlier one.
C23_Witness ==
    /\ MAX_THREAD_COUNT = 1
    /\ \A j \in 1..NJobs : Delivered(j) /\ ~InSlot(j) /\ ~InQueue(j)

====
